---- MODULE Spec2Model ----
(***************************************************************************)
(* Book Store Management API (src/api.js, src/validators.js).              *)
(*                                                                         *)
(* An Express application with five CRUD routes and one cover-upload route *)
(* over a Mongoose model.  Node runs one route chain at a time: a request  *)
(* is routed (its middleware and the synchronous head of its handler run   *)
(* without interruption), its single store operation is then executed by   *)
(* MongoDB atomically on one document, and the handler's continuation      *)
(* sends the response.  Requests of different clients interleave between   *)
(* these steps.                                                            *)
(***************************************************************************)
EXTENDS Integers, Sequences, FiniteSets, TLC

\* ------------------------------------------------------------------ bounds
MaxRequests == 3   \* requests ever received, in Spec
MaxArrivals == 2   \* requests ever received, in SpecSeq
MaxClock == 1      \* Date.now() ranges over 0..MaxClock

\* ------------------------------------------------------- JSON values
\* A JSON value of a request body: undefined (key absent), a string (a
\* sequence of characters) or a number n, or n + 0.5 when half is TRUE.
JUndef == [t |-> "undefined", s |-> <<>>, n |-> 0, half |-> FALSE]
JNull == [t |-> "null", s |-> <<>>, n |-> 0, half |-> FALSE]
JStr(s) == [t |-> "string", s |-> s, n |-> 0, half |-> FALSE]
JNum(n, half) == [t |-> "number", s |-> <<>>, n |-> n, half |-> half]

\* ------------------------------------------------------- strings
RECURSIVE TrimStart(_)
TrimStart(s) ==
    IF s # <<>> /\ Head(s) = " " THEN TrimStart(Tail(s)) ELSE s

RECURSIVE TrimEnd(_)
TrimEnd(s) ==
    IF s # <<>> /\ s[Len(s)] = " " THEN TrimEnd(SubSeq(s, 1, Len(s) - 1)) ELSE s

\* String.prototype.trim, as Joi's .trim() and Mongoose's trim: true apply it
Trim(s) == TrimEnd(TrimStart(s))

Digits == {"0", "1", "2", "3", "4", "5", "6", "7", "8", "9"}

DigitVal(c) ==
    CASE c = "0" -> 0 [] c = "1" -> 1 [] c = "2" -> 2 [] c = "3" -> 3
      [] c = "4" -> 4 [] c = "5" -> 5 [] c = "6" -> 6 [] c = "7" -> 7
      [] c = "8" -> 8 [] c = "9" -> 9

RECURSIVE ParseDigits(_)
ParseDigits(s) ==
    IF s = <<>> THEN 0
    ELSE 10 * ParseDigits(SubSeq(s, 1, Len(s) - 1)) + DigitVal(s[Len(s)])

\* Joi's number coercion from a string: surrounding white space allowed,
\* then an unsigned run of digits (the decimal forms are not sampled)
IsNumericString(s) ==
    /\ Trim(s) # <<>>
    /\ \A i \in 1..Len(Trim(s)) : Trim(s)[i] \in Digits

\* ------------------------------------------------------- bookSchema (Joi)
Err(path, type) == <<[path |-> path, type |-> type]>>

\* Joi.string().trim().min(1).required(), convert: true
JoiString(v, path) ==
    IF v.t = "undefined" THEN [errors |-> Err(path, "any.required"), value |-> v]
    ELSE IF v.t # "string" THEN [errors |-> Err(path, "string.base"), value |-> v]
    ELSE IF Trim(v.s) = <<>>
         THEN [errors |-> Err(path, "string.empty"), value |-> JStr(Trim(v.s))]
    ELSE IF Len(Trim(v.s)) < 1
         THEN [errors |-> Err(path, "string.min"), value |-> JStr(Trim(v.s))]
    ELSE [errors |-> <<>>, value |-> JStr(Trim(v.s))]

\* the rules of a Joi.number().min(1), without integer()
NumberRulesNoInteger(v, path) ==
    [errors |-> IF v.n < 1 THEN Err(path, "number.min") ELSE <<>>, value |-> v]

\* the rules of Joi.number().integer().min(1) on a number; abortEarly: false
\* reports every rule that fails
NumberRules(v, path) ==
    [errors |-> (IF v.half THEN Err(path, "number.integer") ELSE <<>>)
                \o (IF v.n < 1 THEN Err(path, "number.min") ELSE <<>>),
     value |-> v]

\* Joi.number().integer().min(1).required(), convert: true
JoiNumber(v, path) ==
    IF v.t = "undefined" THEN [errors |-> Err(path, "any.required"), value |-> v]
    ELSE IF v.t = "string" /\ IsNumericString(v.s)
         THEN NumberRules(JNum(ParseDigits(Trim(v.s)), FALSE), path)
    ELSE IF v.t # "number" THEN [errors |-> Err(path, "number.base"), value |-> v]
    ELSE NumberRules(v, path)

\* schema.validate without stripUnknown: a CoverUrl of the body is kept
SchemaValidateKeepUnknown(body) ==
    LET t == JoiString(body.Title, "Title")
        a == JoiString(body.Author, "Author")
        p == JoiNumber(body.Pages, "Pages")
    IN  [errors |-> t.errors \o a.errors \o p.errors,
         value |-> [Title |-> t.value, Author |-> a.value, Pages |-> p.value,
                    CoverUrl |-> body.CoverUrl]]

\* schema.validate(req.body, {abortEarly: false, stripUnknown: true}) with
\* schema = bookSchema: the errors of all three keys in schema order, and the
\* converted value with every key outside the schema removed
SchemaValidate(body) ==
    LET t == JoiString(body.Title, "Title")
        a == JoiString(body.Author, "Author")
        p == JoiNumber(body.Pages, "Pages")
    IN  [errors |-> t.errors \o a.errors \o p.errors,
         value |-> [Title |-> t.value, Author |-> a.value, Pages |-> p.value,
                    CoverUrl |-> JUndef]]

\* ------------------------------------------------------- validateId
HexChars == Digits \cup {"a", "b", "c", "d", "e", "f", "A", "B", "C", "D", "E", "F"}

\* mongoose.Types.ObjectId.isValid on a string (bson 6, Mongoose 8): a string
\* of 24 hexadecimal characters
ObjectIdIsValid(id) ==
    Len(id) = 24 /\ \A i \in 1..24 : id[i] \in HexChars

LowerChar(c) ==
    CASE c = "A" -> "a" [] c = "B" -> "b" [] c = "C" -> "c" [] c = "D" -> "d"
      [] c = "E" -> "e" [] c = "F" -> "f" [] c = "P" -> "p" [] OTHER -> c

\* String.prototype.toLowerCase on the sampled alphabet
ToLowerCase(s) == [i \in 1..Len(s) |-> LowerChar(s[i])]

\* the ObjectId Mongoose casts a valid id string to (hex is case-blind)
CastObjectId(id) == ToLowerCase(id)

HexSeq == <<"0", "1", "2", "3", "4", "5", "6", "7", "8", "9",
            "a", "b", "c", "d", "e", "f">>

\* the k-th ObjectId the driver generates (new ObjectId() when the document
\* is constructed): 24 lower-case hexadecimal characters, distinct for
\* distinct k < 256
ObjectIdOf(k) ==
    [i \in 1..24 |-> IF i < 23 THEN "a"
                     ELSE IF i = 23 THEN HexSeq[((k \div 16) % 16) + 1]
                     ELSE HexSeq[(k % 16) + 1]]

\* ------------------------------------------------------- bookstoreSchema
\* The update document of a write: a key that is absent is JUndef.
NoKeys == [Title |-> JUndef, Author |-> JUndef, Pages |-> JUndef, CoverUrl |-> JUndef]

\* Mongoose's cast of the paths of an object: the String paths declared with
\* trim: true are trimmed, a numeric string becomes the Number of Pages
CastPaths(obj) ==
    [obj EXCEPT !.Title = IF @.t = "string" THEN JStr(Trim(@.s)) ELSE @,
                !.Author = IF @.t = "string" THEN JStr(Trim(@.s)) ELSE @,
                !.Pages = IF @.t = "string" /\ IsNumericString(@.s)
                          THEN JNum(ParseDigits(Trim(@.s)), FALSE) ELSE @]

\* the validators of one path: required on a String refuses the empty
\* string, Pages has min: 1; CoverUrl has none
PathValid(path, v) ==
    CASE path \in {"Title", "Author"} -> v.t = "string" /\ v.s # <<>>
      [] path = "Pages" -> v.t = "number" /\ v.n >= 1
      [] OTHER -> TRUE

Paths == {"Title", "Author", "Pages", "CoverUrl"}

PathOf(obj, path) ==
    CASE path = "Title" -> obj.Title [] path = "Author" -> obj.Author
      [] path = "Pages" -> obj.Pages [] OTHER -> obj.CoverUrl

\* document validation on save: every path is validated
DocValid(obj) == \A path \in Paths : PathValid(path, PathOf(obj, path))

\* update validators (runValidators: true): the paths the update sets
UpdateValid(upd) ==
    \A path \in Paths :
        PathOf(upd, path).t # "undefined" => PathValid(path, PathOf(upd, path))

\* new BookStore(body) saved at time now: the cast paths, CoverUrl's default,
\* the generated _id and the timestamps of {timestamps: true}
NewDoc(id, body, now) ==
    LET c == CastPaths(body)
    IN  [_id |-> id, Title |-> c.Title, Author |-> c.Author, Pages |-> c.Pages,
         CoverUrl |-> IF c.CoverUrl.t = "undefined" THEN JNull ELSE c.CoverUrl,
         createdAt |-> now, updatedAt |-> now]

\* a replacement by a new document, as an upsert would build it
ApplyUpdateReplace(doc, upd, now) == NewDoc(doc._id, upd, now)

\* a replacement of the document instead of a $set of the given keys
ApplyUpdateOverwrite(doc, upd, now) ==
    [_id |-> doc._id, Title |-> CastPaths(upd).Title, Author |-> CastPaths(upd).Author,
     Pages |-> CastPaths(upd).Pages,
     CoverUrl |-> IF upd.CoverUrl.t = "undefined" THEN JNull ELSE upd.CoverUrl,
     createdAt |-> doc.createdAt, updatedAt |-> now]

\* findByIdAndUpdate(id, upd, ...) on the matched document: a $set of the keys
\* of upd, cast, and of updatedAt
ApplyUpdate(doc, upd, now) ==
    LET c == CastPaths(upd)
    IN  [doc EXCEPT !.Title = IF c.Title.t = "undefined" THEN @ ELSE c.Title,
                    !.Author = IF c.Author.t = "undefined" THEN @ ELSE c.Author,
                    !.Pages = IF c.Pages.t = "undefined" THEN @ ELSE c.Pages,
                    !.CoverUrl = IF c.CoverUrl.t = "undefined" THEN @ ELSE c.CoverUrl,
                    !.updatedAt = now]

\* ------------------------------------------------------- Multer
allowed == {"image/png", "image/jpeg", "image/jpg", "image/webp"}

FileSizeLimit == 2 * 1024 * 1024

\* a request without a file part
NoFile == [field |-> "", originalname |-> <<>>, mimetype |-> "", size |-> 0]

RECURSIVE LastDot(_)
LastDot(s) ==
    IF s = <<>> THEN 0
    ELSE IF s[Len(s)] = "." THEN Len(s)
    ELSE LastDot(SubSeq(s, 1, Len(s) - 1))

\* path.extname: from the last dot on, nothing when there is no dot or the
\* name starts with its only dot
ExtName(s) == IF LastDot(s) <= 1 THEN <<>> ELSE SubSeq(s, LastDot(s), Len(s))

\* storage.filename: `${Date.now()}-${random}${ext}`
FileName(file, now, rnd) == <<now, rnd, ToLowerCase(ExtName(file.originalname))>>

\* fileFilter: the file is accepted when allowed includes its mimetype
fileFilter(file) == file.mimetype \in allowed

\* upload.single('file') without the fileSize limit
MulterNoLimit(file) ==
    IF file.field = "" THEN "nofile"
    ELSE IF file.field # "file" THEN "LIMIT_UNEXPECTED_FILE"
    ELSE IF ~fileFilter(file) THEN "filtered"
    ELSE "stored"

\* upload.single('file'): what Multer does with the request's file part
Multer(file) ==
    IF file.field = "" THEN "nofile"
    ELSE IF file.field # "file" THEN "LIMIT_UNEXPECTED_FILE"
    ELSE IF ~fileFilter(file) THEN "filtered"
    ELSE IF file.size > FileSizeLimit THEN "LIMIT_FILE_SIZE"
    ELSE "stored"

\* `${req.protocol}://${req.get('host')}/uploads/${req.file.filename}`
CoverUrlOf(host, filename) == <<"http", host, "uploads", filename>>

\* ------------------------------------------------------- state
VARIABLES
    store,      \* the bookstores collection: a set of documents
    uploads,    \* the names of the files under ./uploads
    clock,      \* Date.now() when the last request arrived
    nextId,     \* ObjectIds generated so far, plus one
    req,        \* per request slot: the request and how far it has got
    last,       \* the response the last step sent (Idle when it sent none)
    hist,       \* history: per stored _id, what was last written to it (a set)
    deleted,    \* history: the _ids whose delete was answered 200
    served      \* history: the number of requests received

vars == <<store, uploads, clock, nextId, req, last, hist, deleted, served>>

Slots == {"r1", "r2"}

\* A slot: pc is idle, routing (the request has arrived and Express is to
\* route it) or pending (its store operation is issued and not yet executed);
\* a response is a slot with pc done.  body is req.body, raw the body as it arrived; upd is
\* the update document of a pending findByIdAndUpdate, newDoc the document
\* of a pending create, now the Date.now() of its timestamps; seq (history)
\* is whether the request follows the write it is compared with: a get
\* that arrived when its record was created, an update that arrived when
\* the last write applied to its record was an update of the same body.
Idle ==
    [pc |-> "idle", op |-> "", id |-> <<>>, body |-> NoKeys, raw |-> NoKeys,
     file |-> NoFile, host |-> "", upd |-> NoKeys, newDoc |-> {}, now |-> 0,
     status |-> 0, message |-> "", details |-> <<>>, result |-> {},
     storeOps |-> 0, fault |-> FALSE, seq |-> FALSE]

Init ==
    /\ store = {}
    /\ uploads = {}
    /\ clock = 0
    /\ nextId = 1
    /\ req = [s \in Slots |-> Idle]
    /\ last = Idle
    /\ hist = {}
    /\ deleted = {}
    /\ served = 0

\* ------------------------------------------------------- sampled requests
Rands == {0}        \* Math.round(Math.random() * 1e9)
\* the time that may have passed since the last request arrived
Elapsed == {dt \in {0, 1} : clock + dt <= MaxClock}

Bodies(T, A, P, C) ==
    {[Title |-> t, Author |-> a, Pages |-> p, CoverUrl |-> c] :
        t \in T, a \in A, p \in P, c \in C}

Request(op, id, body, file) ==
    [op |-> op, id |-> id, body |-> body, file |-> file, host |-> "localhost"]

Requests(ids, bodies, files) ==
    {Request("list", <<>>, NoKeys, NoFile)}
    \cup {Request(op, id, NoKeys, NoFile) : op \in {"get", "delete"}, id \in ids}
    \cup {Request("create", <<>>, b, NoFile) : b \in bodies}
    \cup {Request("update", id, b, NoFile) : id \in ids, b \in bodies}
    \cup {Request("cover", id, NoKeys, f) : id \in ids, f \in files}

UpperId(id) ==
    [i \in 1..Len(id) |-> CASE id[i] = "a" -> "A" [] id[i] = "f" -> "F" [] OTHER -> id[i]]

NotAnId == <<"n", "o", "t", "-", "a", "n", "-", "i", "d">>

\* a CoverUrl a client puts into a body: no file of ./uploads
EvilUrl == JStr(<<"http", "evil", "uploads", <<9, 9, <<>>>>>>)

PngFile == [field |-> "file", originalname |-> <<"c", ".", "P">>,
            mimetype |-> "image/png", size |-> FileSizeLimit]

\* the requests of the concurrent specification: one book's id and an id
\* that is none, two bodies the validator accepts and two it refuses, an
\* upload without a file, with a file and with one that is too large
CoreIds == {ObjectIdOf(1), NotAnId}

CoreBodies ==
    {[Title |-> JStr(<<"a">>), Author |-> JStr(<<"a">>), Pages |-> JNum(1, FALSE),
      CoverUrl |-> JUndef],
     [Title |-> JStr(<<" ", "b", " ">>), Author |-> JStr(<<"a">>),
      Pages |-> JStr(<<"2">>), CoverUrl |-> EvilUrl],
     [Title |-> JStr(<<" ">>), Author |-> JUndef, Pages |-> JNum(0, FALSE),
      CoverUrl |-> JUndef],
     [Title |-> JStr(<<"a">>), Author |-> JStr(<<"a">>), Pages |-> JNum(1, TRUE),
      CoverUrl |-> JUndef]}

CoreFiles == {NoFile, PngFile, [PngFile EXCEPT !.size = FileSizeLimit + 1]}

CoreRequests == Requests(CoreIds, CoreBodies, CoreFiles)

\* the requests of the sequential specification: every way an id, a body or
\* a file is refused, and a few that are accepted
Chars(k, c) == [i \in 1..k |-> c]

RichIds ==
    {ObjectIdOf(1), UpperId(ObjectIdOf(1)), ObjectIdOf(2), NotAnId,
     Chars(12, "a"), Chars(23, "a"), Chars(25, "a"),
     [ObjectIdOf(1) EXCEPT ![5] = "g"]}

\* an accepted body with one field varied at a time, then bodies with
\* several refused fields
RichBodies ==
    Bodies({JUndef, JStr(<<" ">>), JStr(<<" ", "a", " ">>), JNum(1, FALSE)},
           {JStr(<<"a">>)}, {JNum(1, FALSE)}, {JUndef})
    \cup Bodies({JStr(<<"a">>)}, {JUndef, JStr(<<>>)}, {JNum(1, FALSE)}, {JUndef})
    \cup Bodies({JStr(<<"a">>)}, {JStr(<<"a">>)},
                {JUndef, JNum(0, FALSE), JNum(-1, FALSE), JNum(1, TRUE),
                 JStr(<<"2">>), JStr(<<"x">>)},
                {JUndef, EvilUrl})
    \cup Bodies({JUndef, JStr(<<>>)}, {JUndef}, {JNum(0, FALSE)}, {JUndef})

RichFiles ==
    {NoFile, PngFile,
     [PngFile EXCEPT !.size = FileSizeLimit + 1],
     [PngFile EXCEPT !.size = 5 * 1024 * 1024],
     [PngFile EXCEPT !.mimetype = "text/plain"],
     [PngFile EXCEPT !.mimetype = "image/gif", !.size = 1],
     [PngFile EXCEPT !.mimetype = "image/webp", !.originalname = <<"c">>],
     [PngFile EXCEPT !.field = "cover"]}

\* every id with the bodies and files above, and the ids of two books with
\* every body and file
RichRequests ==
    Requests(RichIds, CoreBodies, CoreFiles)
    \cup Requests({ObjectIdOf(1), ObjectIdOf(2)}, RichBodies, RichFiles)

\* ------------------------------------------------------- routing
\* the response of slot r's request
Respond(r, status, message) ==
    [Idle EXCEPT !.pc = "done", !.op = r.op, !.id = r.id, !.raw = r.raw,
                 !.status = status, !.message = message, !.storeOps = r.storeOps,
                 !.seq = r.seq]

\* the request's store operation is issued; the handler awaits it
Await(r) == [r EXCEPT !.pc = "pending", !.host = "", !.storeOps = 1]

\* What routing a request comes to: the slot after it, the files Multer has
\* written and the number of ObjectIds generated.
Out(slot) == [slot |-> slot, files |-> {}, ids |-> 0]

\* validateId: 400 unless req.params.id is a valid ObjectId
validateId(r) == ObjectIdIsValid(r.id)

\* validate(bookSchema): 400 with every detail, or req.body = value
ValidationResponse(r) ==
    [Respond(r, 400, "ValidationError") EXCEPT !.details = SchemaValidate(r.body).errors]

\* router.get('/'): BookStore.find()
RouteList(r) == Out(Await(r))

\* router.get('/:id') and router.delete('/delete/:id'): validateId, then
\* findById / findByIdAndDelete
RouteById(r) ==
    Out(IF ~validateId(r) THEN Respond(r, 400, "Invalid id") ELSE Await(r))

\* a create route without the validate middleware
RouteCreateUnvalidated(r, now, nid) ==
    [slot |-> [Await(r) EXCEPT !.now = now,
                               !.newDoc = {NewDoc(ObjectIdOf(nid), r.body, now)}],
     files |-> {}, ids |-> 1]

\* router.post('/add'): validate(bookSchema), then BookStore.create(req.body),
\* which constructs the document (its _id, its timestamps) and saves it
RouteCreate(r, now, nid) ==
    LET v == SchemaValidate(r.body)
    IN  IF v.errors # <<>> THEN Out(ValidationResponse(r))
        ELSE [slot |-> [Await(r) EXCEPT !.body = v.value, !.now = now,
                                        !.newDoc = {NewDoc(ObjectIdOf(nid), v.value, now)}],
              files |-> {}, ids |-> 1]

\* an update route that validates the body before the id
RouteUpdateBodyFirst(r, now) ==
    LET v == SchemaValidate(r.body)
    IN  Out(IF v.errors # <<>> THEN ValidationResponse(r)
            ELSE IF ~validateId(r) THEN Respond(r, 400, "Invalid id")
            ELSE [Await(r) EXCEPT !.body = v.value, !.upd = v.value, !.now = now])

\* router.put('/update/:id'): validateId, validate(bookSchema), then
\* findByIdAndUpdate(id, req.body, {new: true, runValidators: true})
RouteUpdate(r, now) ==
    LET v == SchemaValidate(r.body)
    IN  Out(IF ~validateId(r) THEN Respond(r, 400, "Invalid id")
            ELSE IF v.errors # <<>> THEN ValidationResponse(r)
            ELSE [Await(r) EXCEPT !.body = v.value, !.upd = v.value, !.now = now])

\* router.post('/:id/cover'): validateId, upload.single('file'), then the
\* handler up to its findByIdAndUpdate(id, {CoverUrl: url}, {new: true}).
\* An error of Multer goes to Express's default error handler (500).
RouteCover(r, now, rnd) ==
    LET m == Multer(r.file)
        name == FileName(r.file, now, rnd)
    IN  IF ~validateId(r) THEN Out(Respond(r, 400, "Invalid id"))
        ELSE IF m = "nofile"
             THEN Out(Respond(r, 400, "File is required (field name: file)"))
        ELSE IF m # "stored"
             THEN Out([Respond(r, 500, "express error page") EXCEPT !.file = r.file])
        ELSE [slot |-> [Await(r) EXCEPT
                           !.upd = [NoKeys EXCEPT
                                       !.CoverUrl = JStr(CoverUrlOf(r.host, name))],
                           !.now = now],
              files |-> {name}, ids |-> 0]

\* Express routes the request: its middleware and the head of its handler,
\* up to the first await
Route(r, now, nid, rnd) ==
    CASE r.op = "list" -> RouteList(r)
      [] r.op \in {"get", "delete"} -> RouteById(r)
      [] r.op = "create" -> RouteCreate(r, now, nid)
      [] r.op = "update" -> RouteUpdate(r, now)
      [] r.op = "cover" -> RouteCover(r, now, rnd)

\* history of one document: kind and raw are the last create or update
\* applied to it and the body that request arrived with, cover the CoverUrl
\* of the last cover upload applied to it (JNull when there was none), fresh
\* whether no cover upload was applied since that create or update, repeat
\* whether the last write was an update that directly followed an update of
\* the same body, race the slot whose update or cover upload was pending
\* when the last write, of the other kind, was applied ("both" once that
\* slot's write is applied too)
HistOf(id) == {h \in hist : h._id = id}

\* the slot of request r when it has arrived
Routing(r) ==
    [Idle EXCEPT !.pc = "routing", !.op = r.op, !.id = r.id, !.body = r.body,
                 !.raw = r.body, !.file = r.file, !.host = r.host,
                 !.seq = \E h \in HistOf(CastObjectId(r.id)) :
                            \/ r.op = "get" /\ h.kind = "create"
                            \/ /\ r.op = "update"
                               /\ h.kind = "update" /\ h.fresh /\ h.raw = r.body]

\* a slot takes a request when it holds none
Free(s) == req[s].pc = "idle"

\* the slot of a request after a step of it: a response is sent and frees it
Step(s, slot) ==
    IF slot.pc = "done"
    THEN req' = [req EXCEPT ![s] = Idle] /\ last' = slot
    ELSE req' = [req EXCEPT ![s] = slot] /\ last' = Idle


Routed(s, out) ==
    /\ Step(s, out.slot)
    /\ uploads' = uploads \cup out.files
    /\ nextId' = nextId + out.ids

\* ------------------------------------------------------- actions
\* A request of R arrives: its body is parsed and it waits to be routed.
Arrive(s, R) ==
    /\ Free(s)
    /\ served < MaxArrivals
    /\ \E r \in R : req' = [req EXCEPT ![s] = Routing(r)]
    /\ \E dt \in Elapsed : clock' = clock + dt
    /\ served' = served + 1
    /\ last' = Idle
    /\ UNCHANGED <<store, uploads, nextId, hist, deleted>>

\* Express routes the request that has arrived.
Dispatch(s) ==
    /\ req[s].pc = "routing"
    /\ \E rnd \in Rands : Routed(s, Route(req[s], clock, nextId, rnd))
    /\ UNCHANGED <<store, clock, hist, deleted, served>>

\* A request of R arrives and is routed at once (arriving changes nothing
\* that another request reads); it takes the first free slot.
Receive(s, R) ==
    /\ Free(s)
    /\ s = "r2" => ~Free("r1")
    /\ served < MaxRequests
    /\ \E r \in R, rnd \in Rands, dt \in Elapsed :
        /\ clock' = clock + dt
        /\ Routed(s, Route(Routing(r), clock + dt, nextId, rnd))
    /\ served' = served + 1
    /\ UNCHANGED <<store, hist, deleted>>

\* the documents findById(id) matches
Find(id) == {d \in store : d._id = CastObjectId(id)}

\* the slots other than s with a pending write, not of kind route, to id
Racers(s, route, id) ==
    {t \in Slots \ {s} :
        /\ req[t].pc = "pending"
        /\ req[t].op \in {"update", "cover"} \ {route}
        /\ CastObjectId(req[t].id) = id}

RaceAfter(h, s, route) ==
    IF h.race = s THEN "both"
    ELSE IF Racers(s, route, h._id) # {} THEN CHOOSE t \in Racers(s, route, h._id) : TRUE
    ELSE ""

\* the catch block of every handler but the cover upload's
ServerError(r) == Respond(r, 500, "ServerError")

\* The store executes BookStore.find() and the handler answers.
StoreList(s, fault) ==
    /\ req[s].op = "list"
    /\ Step(s, IF fault THEN [ServerError(req[s]) EXCEPT !.fault = TRUE]
               ELSE [Respond(req[s], 200, "") EXCEPT !.result = store])
    /\ UNCHANGED <<store, uploads, clock, nextId, hist, deleted, served>>

\* a get handler whose query has no filter: find() for findById(id)
StoreGetUnfiltered(s, fault) ==
    /\ req[s].op = "get"
    /\ Step(s, IF fault THEN [Respond(req[s], 500, "ServerError") EXCEPT !.fault = TRUE]
               ELSE IF store = {} THEN Respond(req[s], 404, "NotFound")
               ELSE [Respond(req[s], 200, "") EXCEPT !.result = store])
    /\ UNCHANGED <<store, uploads, clock, nextId, hist, deleted, served>>

\* findById(req.params.id).lean(): null is answered 404
StoreGet(s, fault) ==
    /\ req[s].op = "get"
    /\ Step(s, IF fault THEN [ServerError(req[s]) EXCEPT !.fault = TRUE]
               ELSE IF Find(req[s].id) = {} THEN Respond(req[s], 404, "NotFound")
               ELSE [Respond(req[s], 200, "") EXCEPT !.result = Find(req[s].id)])
    /\ UNCHANGED <<store, uploads, clock, nextId, hist, deleted, served>>

\* BookStore.create(req.body): the document is validated and inserted; a
\* validation error or a duplicate _id is thrown like any other fault
StoreCreate(s, fault) ==
    /\ req[s].op = "create"
    /\ LET r == req[s]
           ok == /\ ~fault
                 /\ \A d \in r.newDoc : DocValid(d) /\ Find(d._id) = {}
       IN  /\ Step(s, IF ok THEN [Respond(r, 201, "") EXCEPT !.result = r.newDoc]
                      ELSE [ServerError(r) EXCEPT !.fault = fault])
           /\ store' = IF ok THEN store \cup r.newDoc ELSE store
           /\ hist' = IF ok
                      THEN hist \cup {[_id |-> d._id, kind |-> "create", raw |-> r.raw,
                                       cover |-> JNull, fresh |-> TRUE,
                                       repeat |-> FALSE, race |-> ""] :
                                      d \in r.newDoc}
                      ELSE hist
    /\ UNCHANGED <<uploads, clock, nextId, deleted, served>>

\* findByIdAndUpdate(id, upd, opts) as both the update and the cover route
\* call it: the update validators run when asked for, the matched document
\* is changed in one atomic step, null is answered 404.  caught is the
\* response of the route's catch block.
StoreUpdate(s, fault, route, runValidators, caught) ==
    /\ req[s].op = route
    /\ LET r == req[s]
           id == CastObjectId(r.id)
           thrown == fault \/ (runValidators /\ ~UpdateValid(CastPaths(r.upd)))
           found == IF thrown THEN {} ELSE Find(r.id)
           updated == {ApplyUpdate(d, r.upd, r.now) : d \in found}
       IN  /\ Step(s, IF thrown THEN [caught EXCEPT !.fault = fault]
                      ELSE IF found = {} THEN Respond(r, 404, "NotFound")
                      ELSE [Respond(r, 200, "") EXCEPT !.result = updated])
           /\ store' = (store \ found) \cup updated
           /\ hist' = IF found = {}
                      THEN {IF h.race = s THEN [h EXCEPT !.race = ""] ELSE h : h \in hist}
                      ELSE (hist \ HistOf(id))
                           \cup {IF route = "update"
                                 THEN [h EXCEPT !.kind = "update", !.raw = r.raw,
                                                !.fresh = TRUE,
                                                !.repeat = /\ h.kind = "update"
                                                           /\ h.fresh
                                                           /\ h.raw = r.raw,
                                                !.race = RaceAfter(h, s, route)]
                                 ELSE [h EXCEPT !.cover = r.upd.CoverUrl,
                                                !.fresh = FALSE, !.repeat = FALSE,
                                                !.race = RaceAfter(h, s, route)]
                                 : h \in HistOf(id)}
    /\ UNCHANGED <<uploads, clock, nextId, deleted, served>>

\* a delete handler that does not look at what findByIdAndDelete returned
StoreDeleteAlways200(s, fault) ==
    /\ req[s].op = "delete"
    /\ LET r == req[s]
           found == IF fault THEN {} ELSE {d \in store : d._id = CastObjectId(r.id)}
       IN  /\ Step(s, IF fault THEN [Respond(r, 500, "ServerError") EXCEPT !.fault = TRUE]
                      ELSE Respond(r, 200, "Book Store deleted."))
           /\ store' = store \ found
           /\ hist' = IF found = {} THEN hist ELSE {h \in hist : h._id # CastObjectId(r.id)}
           /\ deleted' = IF found = {} THEN deleted
                         ELSE deleted \cup {CastObjectId(r.id)}
    /\ UNCHANGED <<uploads, clock, nextId, served>>

\* findByIdAndDelete(req.params.id): null is answered 404
StoreDelete(s, fault) ==
    /\ req[s].op = "delete"
    /\ LET r == req[s]
           found == IF fault THEN {} ELSE Find(r.id)
       IN  /\ Step(s, IF fault THEN [ServerError(r) EXCEPT !.fault = TRUE]
                      ELSE IF found = {} THEN Respond(r, 404, "NotFound")
                      ELSE Respond(r, 200, "Book Store deleted."))
           /\ store' = store \ found
           /\ hist' = IF found = {} THEN hist ELSE hist \ HistOf(CastObjectId(r.id))
           /\ deleted' = IF found = {} THEN deleted
                         ELSE deleted \cup {CastObjectId(r.id)}
    /\ UNCHANGED <<uploads, clock, nextId, served>>

\* The store executes the pending operation of slot s, or fails (a fault:
\* the connection is lost, the server is down), and the handler answers.
StoreStep(s) ==
    /\ req[s].pc = "pending"
    /\ \E fault \in BOOLEAN :
        \/ StoreList(s, fault)
        \/ StoreGet(s, fault)
        \/ StoreCreate(s, fault)
        \/ StoreUpdate(s, fault, "update", TRUE, ServerError(req[s]))
        \/ StoreUpdate(s, fault, "cover", FALSE, Respond(req[s], 400, "UploadError"))
        \/ StoreDelete(s, fault)

Next ==
    \/ \E s \in Slots : Receive(s, CoreRequests)
    \/ \E s \in Slots : StoreStep(s)

\* Requests of many clients, in every interleaving of their steps.
Spec == Init /\ [][Next]_vars

NextSeq ==
    \/ Arrive("r1", RichRequests)
    \/ Dispatch("r1")
    \/ StoreStep("r1")

\* One request at a time, drawn from every kind of input.
SpecSeq == Init /\ [][NextSeq]_vars

\* ------------------------------------------------------- properties
\* what the claims call a well-formed identifier: 24 hexadecimal characters
WellFormedId(id) == Len(id) = 24 /\ \A i \in 1..24 : id[i] \in HexChars

\* what the claims call the sanitized input: the strings trimmed, Pages a number
Sanitized(raw) ==
    [Title |-> JStr(Trim(raw.Title.s)), Author |-> JStr(Trim(raw.Author.s)),
     Pages |-> IF raw.Pages.t = "string"
               THEN JNum(ParseDigits(Trim(raw.Pages.s)), FALSE) ELSE raw.Pages]

\* slot s is routed in this step
Routes(s) == req[s].pc = "routing" /\ req'[s].pc # "routing"

\* the store executes the operation of slot s in this step
Executes(s) == req[s].pc = "pending" /\ req'[s].pc = "idle"

TrimmedNonEmpty(v) == v.t = "string" /\ v.s # <<>> /\ Trim(v.s) = v.s

\* C1: every stored record has an _id no other record has, Title and Author
\* that are trimmed non-empty strings and Pages that is an integer >= 1.
C1_StoredRecordsValid ==
    /\ \A d \in store : \A e \in store : d._id = e._id => d = e
    /\ \A d \in store :
        /\ TrimmedNonEmpty(d.Title)
        /\ TrimmedNonEmpty(d.Author)
        /\ d.Pages.t = "number" /\ ~d.Pages.half /\ d.Pages.n >= 1

\* two records are stored, one of them updated after its creation
C1_Witness ==
    /\ Cardinality(store) = 2
    /\ \E h \in hist : h.kind = "update"

\* the bodies C2 is about: Title, Author or Pages missing, or Pages < 1
BodyRefused(b) ==
    \/ b.Title.t = "undefined"
    \/ b.Author.t = "undefined"
    \/ b.Pages.t = "undefined"
    \/ b.Pages.t = "number" /\ b.Pages.n < 1

\* C2: a create, or an update with a well-formed id, whose body misses Title,
\* Author or Pages or has Pages < 1 is answered 400 ValidationError (with a
\* detail on Pages when Pages is the fault), issues no store operation and
\* leaves the store as it was.
C2_InvalidBodyRefused ==
    [][\A s \in Slots :
        (/\ Routes(s)
         /\ req[s].op \in {"create", "update"}
         /\ req[s].op = "update" => WellFormedId(req[s].id)
         /\ BodyRefused(req[s].body))
        => /\ req'[s].pc = "idle"
           /\ last'.status = 400
           /\ last'.message = "ValidationError"
           /\ last'.storeOps = 0
           /\ store' = store
           /\ (req[s].body.Pages.t \in {"undefined", "number"}
               /\ ~(req[s].body.Pages.t = "number" /\ req[s].body.Pages.n >= 1))
              => \E i \in 1..Len(last'.details) : last'.details[i].path = "Pages"]_vars

\* an update of a stored record with {Pages: 0} alone was answered 400 with
\* a detail on Pages
C2_Witness ==
    /\ last.op = "update"
    /\ last.status = 400
    /\ last.message = "ValidationError"
    /\ Find(last.id) # {}
    /\ last.raw.Pages = JNum(0, FALSE)
    /\ last.raw.Title = JUndef
    /\ \E i \in 1..Len(last.details) : last.details[i].path = "Pages"

\* C3: get, update and delete by an id that is not well-formed are answered
\* 400 "Invalid id" before any store operation is issued, whatever the body.
C3_InvalidIdRefused ==
    [][\A s \in Slots :
        (/\ Routes(s)
         /\ req[s].op \in {"get", "update", "delete"}
         /\ ~WellFormedId(req[s].id))
        => /\ req'[s].pc = "idle"
           /\ last'.status = 400
           /\ last'.message = "Invalid id"
           /\ last'.storeOps = 0
           /\ store' = store]_vars

\* an update with a malformed id and a body the validator would refuse was
\* answered "Invalid id"
C3_Witness ==
    /\ last.op = "update"
    /\ last.status = 400
    /\ last.message = "Invalid id"
    /\ Len(last.id) = 12
    /\ BodyRefused(last.raw)
    /\ last.storeOps = 0

\* C4 as claimed: a get that follows the create of a record nothing else
\* (but cover uploads) has written answers 200 with the input's Title,
\* Author and Pages and the generated id.
C4_GetEqualsInput ==
    \A h \in HistOf(CastObjectId(last.id)) :
        (last.op = "get" /\ last.seq /\ ~last.fault /\ h.kind = "create")
        => /\ last.status = 200
           /\ \E d \in last.result :
                /\ last.result = {d}
                /\ d._id = h._id
                /\ d.Title = h.raw.Title
                /\ d.Author = h.raw.Author
                /\ d.Pages = h.raw.Pages

\* C4 (amended): a get, answered by the store, that follows the create of a
\* record nothing else (but cover uploads) has written answers 200 with the
\* generated id and the input's Title and Author trimmed and Pages as a
\* number.
C4_GetEqualsSanitizedInput ==
    \A h \in HistOf(CastObjectId(last.id)) :
        (last.op = "get" /\ last.seq /\ ~last.fault /\ h.kind = "create")
        => /\ last.status = 200
           /\ \E d \in last.result :
                /\ last.result = {d}
                /\ d._id = h._id
                /\ d.Title = Sanitized(h.raw).Title
                /\ d.Author = Sanitized(h.raw).Author
                /\ d.Pages = Sanitized(h.raw).Pages

\* a get has answered a record created from a Title with spaces around it
\* and Pages given as a string, while another record is stored
C4_Witness ==
    /\ last.op = "get"
    /\ last.seq
    /\ last.status = 200
    /\ Cardinality(store) = 2
    /\ \E h \in HistOf(CastObjectId(last.id)) :
        /\ h.kind = "create"
        /\ h.raw.Title.s # Trim(h.raw.Title.s)
        /\ h.raw.Pages.t = "string"

\* C5: a delete the store executes without a fault is answered 404 NotFound
\* and changes nothing when no record matches, in particular when the id was
\* deleted before; it is answered 200 when a record matches, and that id
\* matches no record ever after.
C5_DeleteNotFound ==
    [][/\ \A s \in Slots :
            (Executes(s) /\ req[s].op = "delete" /\ ~last'.fault)
            => /\ Find(req[s].id) = {}
                  => /\ last'.status = 404
                     /\ last'.message = "NotFound"
                     /\ store' = store
               /\ Find(req[s].id) # {}
                  => /\ last'.status = 200
                     /\ CastObjectId(req[s].id) \in deleted'
               /\ CastObjectId(req[s].id) \in deleted => last'.status = 404
       /\ \A d \in store' : d._id \notin deleted']_vars

\* the second delete of an id was answered 404
C5_Witness ==
    /\ last.op = "delete"
    /\ last.status = 404
    /\ last.message = "NotFound"
    /\ CastObjectId(last.id) \in deleted

\* the update slot s's store step applies repeats the last write of its
\* record: an update that arrived with the same body
Repeats(s) ==
    /\ Executes(s)
    /\ req[s].op = "update"
    /\ last'.status = 200
    /\ \E h \in HistOf(CastObjectId(req[s].id)) :
        h.kind = "update" /\ h.fresh /\ h.raw = req[s].raw

\* ... and arrived after an update of that body was applied
RepeatsInSequence(s) == Repeats(s) /\ req[s].seq

\* C6 as claimed: an update that repeats, in sequence, the update before it
\* leaves the whole stored state as it was.
C6_UpdateIdempotent ==
    [][\A s \in Slots : RepeatsInSequence(s) => store' = store]_vars

\* C6 (amended): an update that repeats the update before it changes nothing
\* but the record's updatedAt, which becomes the time of the request.
C6_UpdateIdempotentButUpdatedAt ==
    [][\A s \in Slots :
        Repeats(s)
        => \E d \in Find(req[s].id) :
            store' = (store \ {d}) \cup {[d EXCEPT !.updatedAt = req[s].now]}]_vars

\* an update was repeated, in sequence, after time had passed
C6_Witness ==
    /\ last.op = "update"
    /\ last.status = 200
    /\ last.seq
    /\ \E h \in HistOf(CastObjectId(last.id)) : h.repeat /\ h.raw = last.raw
    /\ \E d \in last.result : d.updatedAt > d.createdAt

\* the files C7 is about: none, a content type that is no accepted image
\* type, or more than 2 MiB
FileRefused(f) ==
    \/ f.field = ""
    \/ f.mimetype \notin {"image/png", "image/jpeg", "image/jpg", "image/webp"}
    \/ f.size > FileSizeLimit

\* C7: a cover upload with no file, a file of a wrong type or a file over
\* 2 MiB is answered with an error, issues no store operation and leaves
\* every record, and the files under ./uploads, as they were.
C7_RejectedUploadChangesNothing ==
    [][\A s \in Slots :
        (Routes(s) /\ req[s].op = "cover" /\ FileRefused(req[s].file))
        => /\ req'[s].pc = "idle"
           /\ last'.status >= 400
           /\ last'.storeOps = 0
           /\ store' = store
           /\ uploads' = uploads]_vars

\* a 5 MiB image for a stored record was refused
C7_Witness ==
    /\ last.op = "cover"
    /\ last.status = 500
    /\ last.file.size = 5 * 1024 * 1024
    /\ last.file.mimetype = "image/png"
    /\ Find(last.id) # {}

\* the CoverUrl v is null or the URL of a file under ./uploads
CoverPersisted(v, files) ==
    \/ v = JNull
    \/ v.t = "string" /\ Len(v.s) = 4 /\ v.s[3] = "uploads" /\ v.s[4] \in files

\* C8: every stored CoverUrl is null or the URL of a file under ./uploads,
\* and the store step of a create or an update gives a new record a null
\* CoverUrl and leaves the CoverUrl of every other record as it was.
C8_CoverUrlOnlyFromUpload ==
    [][/\ \A d \in store' : CoverPersisted(d.CoverUrl, uploads')
       /\ \A s \in Slots :
            (Executes(s) /\ req[s].op \in {"create", "update"})
            => \A e \in store' :
                /\ \A d \in store : d._id = e._id => e.CoverUrl = d.CoverUrl
                /\ (\A d \in store : d._id # e._id) => e.CoverUrl = JNull]_vars

\* an update whose body carried a CoverUrl was applied to a record with an
\* uploaded cover
C8_Witness ==
    /\ last.op = "update"
    /\ last.status = 200
    /\ last.raw.CoverUrl = EvilUrl
    /\ \E d \in last.result : d.CoverUrl # JNull /\ d.CoverUrl # EvilUrl

\* C9: a fault of the store operation is answered 500.
C9_StoreFaultIs500 == last.fault => last.status = 500

\* C10: every record holds the Title, Author and Pages of the last create or
\* update applied to it and the CoverUrl of the last cover upload applied to
\* it (null when there was none): no write undoes another's.
C10_NoLostWrite ==
    \A d \in store :
        /\ HistOf(d._id) # {}
        /\ \A h \in HistOf(d._id) :
            /\ d.Title = Sanitized(h.raw).Title
            /\ d.Author = Sanitized(h.raw).Author
            /\ d.Pages = Sanitized(h.raw).Pages
            /\ d.CoverUrl = h.cover

\* an update and a cover upload of one record were pending together and
\* both have been answered 200
C10_Witness ==
    /\ last.status = 200
    /\ last.op \in {"update", "cover"}
    /\ \E h \in HistOf(CastObjectId(last.id)) :
        h.race = "both" /\ h.kind = "update" /\ h.cover # JNull
====
